---- MODULE Spec2Model ----
(***************************************************************************)
(* Verification model of the media-catalog application:                    *)
(*   - the client session controller (hook useAuth: checkAuth,             *)
(*     refreshToken, login, logout, the initAuth effect), and              *)
(*   - the admin parser endpoint (/api/admin/parser: GET, POST start/stop, *)
(*     PUT) over the ParserStatus / ParserSettings / ParserLog tables.     *)
(* One atomic step of the model is one run of JavaScript between two       *)
(* awaits on a network or database answer (promise continuations that run  *)
(* as microtasks belong to the step that resolved them).                   *)
(***************************************************************************)
EXTENDS Integers, Sequences, FiniteSets, TLC

VARIABLES
    store,      \* redux state: isAuthenticated (auth slice), profile, loading (user slice)
    token,      \* localStorage item 'token' (NoToken when absent)
    online,     \* navigator.onLine
    route,      \* router.pathname
    checkDue,   \* Date.now() - lastCheckRef.current >= CHECK_INTERVAL
    timer,      \* a debounce timer (debounceTimerRef) is pending
    eff,        \* the installed invocation of the auth effect and its closure
    ca,         \* the checkAuth call in flight and who awaits it
    lg,         \* the login call in flight
    ev,         \* what the last step did (operation, result, request sent, token removal)
    checked,    \* a check started by initAuth has completed and no user operation followed
    ops,        \* how many user and environment events have happened
    rev,        \* which revision of the parser handler is deployed
    now,        \* server clock, in ticks of TickMinutes
    parserStatus,   \* rows of table ParserStatus
    parserLog,      \* rows of table ParserLog, oldest first
    statusSeq,      \* autoincrement sequence of ParserStatus.id
    envKeys,        \* process.env holds KINOPOISK_API_KEY and OMDB_API_KEY
    jobs,           \* MediaParser runs by the request that launched them
    rq,             \* the start and stop requests to /api/admin/parser, by arrival number
    settingsTbl,    \* rows of table ParserSettings
    settingsSeq,    \* autoincrement sequence of ParserSettings.id
    cache,          \* the handler module's cache Map, by the user id in the key
    instant,        \* which of the Instants Date.now() of the cache helpers is at
    puts,           \* how many PUTs have succeeded and what the last one saved
    sq,             \* the GET and PUT requests to /api/admin/parser, by arrival number
    users,          \* table User: the role of each user id ("none": no row)
    media,          \* table Media: the ids of its rows
    gq,             \* the requests to the admin endpoints, by arrival number
    mediaTbl,       \* table Media as VideoProcessor sees it: release_date and status by id
    videoSource,    \* rows of table VideoSource, oldest first
    vq,             \* the calls of processMediaVideo, by arrival number
    layout,         \* AdminLayout: mounted, the dependencies its effect last ran with, isAuthorized
    codes,          \* rows of table VerificationCode
    verified,       \* User.is_verified of the user the codes belong to
    kq,             \* the requests to /api/auth/verify, by arrival number
    cq              \* the calls of ContentManagement.fetchMediaItems and the component's state

authVars == <<store, token, online, route, checkDue, timer, eff, ca, lg, ev, checked, ops>>
parserVars == <<rev, now, parserStatus, parserLog, statusSeq, envKeys, jobs, rq>>
settingsVars == <<settingsTbl, settingsSeq, cache, instant, puts, sq>>
guardVars == <<users, media, gq>>
videoVars == <<mediaTbl, videoSource, vq>>
layoutVars == <<layout>>
verifyVars == <<codes, verified, kq>>
contentVars == <<cq>>
pageVars == <<layoutVars, verifyVars, contentVars>>
nonAuthVars == <<parserVars, settingsVars, guardVars, videoVars, pageVars>>
nonParserVars == <<authVars, settingsVars, guardVars, videoVars, pageVars>>
nonGuardVars == <<authVars, parserVars, settingsVars, videoVars, pageVars>>
nonVideoVars == <<authVars, rev, parserStatus, parserLog, statusSeq, envKeys, jobs, rq, settingsVars, guardVars, now, pageVars>>
vars == <<authVars, parserVars, settingsVars, guardVars, videoVars, pageVars>>

----------------------------------------------------------------------------
(* Values *)

NoToken == "none"
Tokens == {"t1", "t2"}
Null == "null"
Roles == {"USER", "ADMIN"}

LoginRoute == "/auth/login"
HomeRoute == "/"
AdminRoute == "/admin/parser"
Routes == {LoginRoute, HomeRoute, AdminRoute}

IsAuthPage(r) == r = LoginRoute
IsAdminPage(r) == r = AdminRoute

RetryCount == 3
DispatchCap == 2
MaxOps == 2

----------------------------------------------------------------------------
(* Reducers *)

LoginSuccess(st) == [st EXCEPT !.isAuthenticated = TRUE]
LogoutAction(st) == [st EXCEPT !.isAuthenticated = FALSE]
SetProfile(st, p) == [st EXCEPT !.profile = p]
ClearProfile(st) == [st EXCEPT !.profile = Null]
SetLoading(st, b) == [st EXCEPT !.loading = b]

InitialStore == [isAuthenticated |-> FALSE, profile |-> Null, loading |-> FALSE]

----------------------------------------------------------------------------
(* Frames and the record of the step *)

\* nProfile, nRefresh, nRetry: the requests this call has sent to /api/profile
\* (first request of an attempt), to /api/auth/refresh, and to /api/profile
\* after a refresh
IdleCa == [pc |-> "idle", token |-> NoToken, reqToken |-> NoToken,
           retryCount |-> 0, caller |-> "-", only401 |-> TRUE,
           nProfile |-> 0, nRefresh |-> 0, nRetry |-> 0]
IdleLg == [pc |-> "idle", retryCount |-> 0, nLS |-> 0, nSP |-> 0]
UnmountedEff == [pc |-> "unmounted", auth |-> FALSE, role |-> Null,
                 route |-> HomeRoute, hasToken |-> FALSE, interval |-> FALSE]

\* op, inp: the operation that ran and the answer it ran on; res, note: what it
\* returned; req: the request it sent; del: why removeToken() removed a token;
\* nLS, nSP: the loginSuccess and setProfile dispatches of a login call that returned
NoEv(op) == [op |-> op, inp |-> "-", res |-> "-", req |-> "-", del |-> "-",
             note |-> "-", nLS |-> 0, nSP |-> 0]

Bump(n) == IF n < DispatchCap THEN n + 1 ELSE n

\* The state of the browser as one record, so that the code's sequential
\* composition is function composition.
World == [store |-> store, token |-> token, online |-> online, route |-> route,
          checkDue |-> checkDue, timer |-> timer, eff |-> eff, ca |-> ca,
          lg |-> lg, ev |-> ev, checked |-> checked, ops |-> ops]

Commit(w) ==
    /\ store' = w.store
    /\ token' = w.token
    /\ online' = w.online
    /\ route' = w.route
    /\ checkDue' = w.checkDue
    /\ timer' = w.timer
    /\ eff' = w.eff
    /\ ca' = w.ca
    /\ lg' = w.lg
    /\ ev' = w.ev
    /\ checked' = w.checked
    /\ ops' = w.ops
    /\ UNCHANGED nonAuthVars

\* removeToken(), remembering which call removed a token that was there
RemoveToken(w, why) ==
    IF w.token = NoToken THEN w
    ELSE [w EXCEPT !.token = NoToken, !.ev.del = why]

\* dispatch(logoutAction()); dispatch(clearProfile())
ForceLoggedOut(w) == [w EXCEPT !.store = ClearProfile(LogoutAction(@))]

\* dispatches made on behalf of the login call are counted in its frame
CountLoginSuccess(w, caller) ==
    IF caller = "login" THEN [w EXCEPT !.lg.nLS = Bump(@)] ELSE w
CountSetProfile(w, caller) ==
    IF caller = "login" THEN [w EXCEPT !.lg.nSP = Bump(@)] ELSE w

DepsOf(w) == <<w.route, w.store.isAuthenticated, w.store.profile>>
EffDeps(w) == <<w.eff.route, w.eff.auth, w.eff.role>>
DepsChanged(w) == w.eff.pc # "unmounted" /\ DepsOf(w) # EffDeps(w)

----------------------------------------------------------------------------
(* login: what runs after the checkAuth it awaited has returned *)

\* catch (authError) of the confirmation loop, and the outer catch / finally
LoginAttemptFailed(w) ==
    IF w.lg.retryCount - 1 = 0
    THEN LET w1 == ForceLoggedOut(RemoveToken(w, "loginConfirm"))
         IN [w1 EXCEPT !.lg = IdleLg,
                       !.store = SetLoading(@, FALSE),
                       !.ev.res = "failure", !.ev.note = "notConfirmed"]
    ELSE [w EXCEPT !.lg.retryCount = @ - 1, !.lg.pc = "backoff"]

\* const currentToken = getToken(); ... fetch('/api/profile')
LoginAfterCheck(w) ==
    IF w.token = NoToken
    THEN LoginAttemptFailed(w)
    ELSE [w EXCEPT !.lg.pc = "profile", !.ev.req = "profile"]

(* initAuth: what runs after `await debouncedCheckAuth()`. cleaned: the
   effect's cleanup has already run (the dependencies changed and React has
   flushed the effect) when the continuation runs. *)
InitAuthRedirect(e) ==
    IF e.auth /\ IsAuthPage(e.route) THEN HomeRoute
    ELSE IF IsAdminPage(e.route) /\ (~e.auth \/ (e.role # Null /\ e.role # "ADMIN"))
         THEN LoginRoute
         ELSE "-"

InitAuthResume(w, cleaned) ==
    LET w1 == [w EXCEPT !.eff.pc = "done"] IN
    IF cleaned /\ DepsChanged(w)
    THEN [w1 EXCEPT !.eff.interval = FALSE]
    ELSE LET to == InitAuthRedirect(w.eff) IN
         [w1 EXCEPT !.route = IF to = "-" THEN @ ELSE to,
                    !.eff.interval = ~IsAuthPage(w.eff.route)]

EffectAfterCheck(w, cleaned) == InitAuthResume([w EXCEPT !.checked = TRUE], cleaned)

----------------------------------------------------------------------------
(* checkAuth *)

\* the value checkAuth returns reaches its caller
CaReturn(w, res, cleaned) ==
    LET f == w.ca
        w1 == [w EXCEPT !.ca = IdleCa, !.ev.res = res,
                        !.ev.note = IF f.token = NoToken THEN "noToken"
                                    ELSE IF f.only401 THEN "only401" ELSE "mixed"]
    IN CASE f.caller = "login" -> LoginAfterCheck(w1)
         [] f.caller = "effect" -> EffectAfterCheck(w1, cleaned)
         [] OTHER -> w1

\* finally { clearTimeout; controller.abort(); dispatch(setLoading(false)) }
CaFinally(w, res, cleaned) ==
    CaReturn([w EXCEPT !.store = SetLoading(@, FALSE)], res, cleaned)

\* mutant: the outer catch removes the token but dispatches nothing
CaFailKeepsState(w, why, cleaned) ==
    IF ~w.online
    THEN CaFinally(w, "false", cleaned)
    ELSE CaFinally(RemoveToken(w, why), "false", cleaned)

\* the outer catch
CaFail(w, why, cleaned) ==
    IF ~w.online
    THEN CaFinally(w, "false", cleaned)
    ELSE CaFinally(RemoveToken(ForceLoggedOut(w), why), "false", cleaned)

\* mutant: the loop goes round without counting the attempt
CaNextAttemptNoDecrement(w) ==
    [w EXCEPT !.ca.pc = "backoff", !.ca.reqToken = NoToken]

\* retryCount--; await backoff  (the end of the loop body)
CaNextAttempt(w) ==
    [w EXCEPT !.ca.retryCount = @ - 1, !.ca.pc = "backoff",
              !.ca.reqToken = NoToken]

\* catch (fetchError) for an error that is no AbortError
CaAttemptFailed(w, why, cleaned) ==
    IF w.ca.retryCount = 1
    THEN CaFail(w, why, cleaned)
    ELSE CaNextAttempt(w)

\* if (!isRefreshed) { ... }
CaNotRefreshed(w, cleaned) ==
    IF w.ca.retryCount = 1
    THEN CaFail(w, "refreshFailed", cleaned)
    ELSE CaNextAttempt(w)

\* fetch('/api/profile') with the token captured when checkAuth started
CaSendProfile(w) ==
    [w EXCEPT !.ca.pc = "profile", !.ca.reqToken = w.ca.token,
              !.ca.nProfile = @ + 1, !.ev.req = "profile"]

\* dispatch(loginSuccess(..)); dispatch(setProfile(..)); return true
CaSucceed(w, rec, cleaned) ==
    LET c == w.ca.caller
        w1 == [w EXCEPT !.store = SetProfile(LoginSuccess(@), rec)]
    IN CaFinally(CountSetProfile(CountLoginSuccess(w1, c), c), "true", cleaned)

CheckAuthStart(w, caller, cleaned) ==
    LET w1 == [w EXCEPT !.ca = [IdleCa EXCEPT !.caller = caller, !.token = w.token,
                                                 !.retryCount = RetryCount]]
    IN IF w.token = NoToken
       THEN CaReturn(ForceLoggedOut(w1), "false", cleaned)
       ELSE CaSendProfile([w1 EXCEPT !.store = SetLoading(@, TRUE)])

ProfileKinds == {"ok", "unauthorized", "serverError", "parseError", "networkError", "abort"}

\* refreshToken() up to its fetch, then the rest of the 401 branch
CaRefresh(w, cleaned) ==
    IF w.token = NoToken
    THEN CaNotRefreshed(w, cleaned)
    ELSE [w EXCEPT !.ca.pc = "refresh", !.ca.reqToken = w.token,
                   !.ca.nRefresh = @ + 1, !.ev.req = "refresh"]

ProfileResponse(w, kind, rec, cleaned) ==
    LET w1 == IF kind = "unauthorized" THEN w ELSE [w EXCEPT !.ca.only401 = FALSE] IN
    CASE kind = "ok" -> CaSucceed(w1, rec, cleaned)
      [] kind = "unauthorized" -> CaRefresh(w1, cleaned)
      [] kind = "serverError" -> CaNextAttempt(w1)
      [] kind = "parseError" -> CaAttemptFailed(w1, "parse", cleaned)
      [] kind = "networkError" -> CaAttemptFailed(w1, "network", cleaned)
      [] OTHER -> CaFail(w1, "abort", cleaned)

RefreshKinds == {"ok", "noToken", "unauthorized", "serverError", "networkError"}

\* mutant: the request after a refresh carries the token captured at the start
RefreshResponseOldToken(w, kind, tok, cleaned) ==
    CASE kind = "ok" ->
           LET w1 == [w EXCEPT !.token = tok, !.store = LoginSuccess(@),
                               !.ca.only401 = FALSE,
                               !.ca.pc = "retry", !.ca.reqToken = w.ca.token,
                               !.ca.nRetry = @ + 1, !.ev.req = "profile"]
           IN CountLoginSuccess(w1, w.ca.caller)
      [] kind = "unauthorized" ->
           CaNotRefreshed(RemoveToken(ForceLoggedOut(w), "refresh401"), cleaned)
      [] OTHER -> CaNotRefreshed(w, cleaned)

RefreshResponse(w, kind, tok, cleaned) ==
    CASE kind = "ok" ->
           LET w1 == [w EXCEPT !.token = tok, !.store = LoginSuccess(@),
                               !.ca.only401 = FALSE,
                               !.ca.pc = "retry", !.ca.reqToken = tok,
                               !.ca.nRetry = @ + 1, !.ev.req = "profile"]
           IN CountLoginSuccess(w1, w.ca.caller)
      [] kind = "unauthorized" ->
           CaNotRefreshed(RemoveToken(ForceLoggedOut(w), "refresh401"), cleaned)
      [] OTHER -> CaNotRefreshed(w, cleaned)

RetryKinds == {"ok", "notOk", "parseError", "networkError", "abort"}

RetryResponse(w, kind, rec, cleaned) ==
    CASE kind = "ok" -> CaSucceed(w, rec, cleaned)
      [] kind = "notOk" ->
           IF w.ca.retryCount = 1
           THEN CaFail(w, "retryFailed", cleaned)
           ELSE CaNextAttempt(w)
      [] kind = "parseError" -> CaAttemptFailed(w, "parse", cleaned)
      [] kind = "networkError" -> CaAttemptFailed(w, "network", cleaned)
      [] OTHER -> CaFail(w, "abort", cleaned)

\* while (retryCount > 0 && !authSuccess) ... throw lastError || new Error(..)
CaBackoffDone(w, cleaned) ==
    IF w.ca.retryCount > 0
    THEN CaSendProfile(w)
    ELSE CaFail(w, "exhausted", cleaned)

----------------------------------------------------------------------------
(* login *)

LoginKinds == {"ok", "okNoToken", "badRequest", "unauthorized", "serverError",
               "parseError", "networkError", "abort"}
NonOkKinds == {"badRequest", "unauthorized", "serverError"}

\* the message of the Error thrown for an answer of this kind
LoginErrorMessage(kind) ==
    CASE kind = "unauthorized" -> "Invalid credentials"
      [] kind = "serverError" -> "Server error, try later"
      [] kind = "badRequest" -> "Authorization error"
      [] kind = "parseError" -> "Cannot process the server's answer"
      [] kind = "okNoToken" -> "No token received"
      [] kind = "abort" -> "Request timed out"
      [] OTHER -> "Failed to fetch"

LoginStart(w) ==
    IF ~w.online
    THEN [w EXCEPT !.lg = IdleLg, !.ev.res = "failure", !.ev.note = "No connection"]
    ELSE [w EXCEPT !.store = SetLoading(@, TRUE),
                   !.lg = [IdleLg EXCEPT !.pc = "login"],
                   !.ev.req = "login"]

\* await checkAuthImmediately()
LoginAttempt(w, cleaned) ==
    CheckAuthStart([w EXCEPT !.timer = FALSE, !.lg.pc = "check"], "login", cleaned)

\* catch (error) { dispatch(loginFailure(..)); return {success: false, error} } finally {..}
LoginFailed(w, kind) ==
    [w EXCEPT !.lg = IdleLg, !.store = SetLoading(@, FALSE),
              !.ev.res = "failure", !.ev.note = LoginErrorMessage(kind)]

\* setToken(data.token); dispatch(loginSuccess(data.token)); then the confirmation loop
LoginAccepted(w, tok, cleaned) ==
    LoginAttempt([w EXCEPT !.token = tok, !.store = LoginSuccess(@),
                           !.lg.nLS = Bump(@), !.lg.retryCount = RetryCount], cleaned)

\* mutant: the token of the answer is stored before res.ok is looked at
LoginResponseStoresFirst(w, kind, tok, cleaned) ==
    IF kind = "ok" THEN LoginAccepted(w, tok, cleaned)
    ELSE LoginFailed([w EXCEPT !.token = tok], kind)

LoginResponse(w, kind, tok, cleaned) ==
    IF kind = "ok" THEN LoginAccepted(w, tok, cleaned) ELSE LoginFailed(w, kind)

LoginProfileKinds == {"ok", "notOk", "networkError"}

LoginProfileResponse(w, kind, rec) ==
    IF kind = "ok"
    THEN [w EXCEPT !.store = SetLoading(SetProfile(@, rec), FALSE),
                   !.lg = IdleLg, !.route = HomeRoute,
                   !.ev.res = "success", !.ev.note = rec,
                   !.ev.nLS = w.lg.nLS, !.ev.nSP = Bump(w.lg.nSP)]
    ELSE LoginAttemptFailed(w)

\* mutant: logout forgets dispatch(clearProfile())
LogoutKeepsProfile(w) ==
    LET w1 == RemoveToken(w, "logout")
    IN [w1 EXCEPT !.store = LogoutAction(@), !.route = LoginRoute]

\* logout(): no request is sent
Logout(w) ==
    LET w1 == ForceLoggedOut(RemoveToken(w, "logout"))
    IN [w1 EXCEPT !.route = LoginRoute]

----------------------------------------------------------------------------
(* the auth effect *)

\* debouncedCheckAuth(): offline it resolves at once, otherwise it arms the timer
DebouncedCheckAuth(w) ==
    IF ~w.online
    THEN InitAuthResume([w EXCEPT !.timer = FALSE], FALSE)
    ELSE [w EXCEPT !.timer = TRUE, !.eff.pc = "awaitDebounce"]

\* if (shouldCheckAuth()) { await debouncedCheckAuth(); ... }
InitAuthCheck(w) ==
    IF w.checkDue
    THEN DebouncedCheckAuth([w EXCEPT !.checkDue = FALSE])
    ELSE [w EXCEPT !.eff.pc = "done", !.eff.interval = ~IsAuthPage(w.eff.route)]

\* initAuth() with the closure of the installed effect, up to its first await
InitAuth(w) ==
    IF ~w.eff.hasToken \/ ~w.online
    THEN LET w1 == ForceLoggedOut(w)
         IN [w1 EXCEPT !.route = IF IsAdminPage(w.eff.route) THEN LoginRoute ELSE @,
                       !.eff.pc = "done",
                       !.eff.interval = ~IsAuthPage(w.eff.route),
                       !.ev.note = IF w.online THEN "noToken" ELSE "offline"]
    ELSE InitAuthCheck(w)

\* the second effect: checkAndRedirect()
CheckAndRedirect(w) ==
    IF w.token = NoToken /\ ~IsAuthPage(w.eff.route)
    THEN [w EXCEPT !.route = LoginRoute]
    ELSE w

\* cleanup of the previous invocation, then the effect body
EffectRun(w) ==
    LET routeChanged == w.eff.pc = "unmounted" \/ w.eff.route # w.route
        w1 == [w EXCEPT !.timer = FALSE,
                        !.ca.caller = IF @ = "effect" THEN "orphan" ELSE @,
                        !.eff = [pc |-> "done", auth |-> w.store.isAuthenticated,
                                 role |-> w.store.profile, route |-> w.route,
                                 hasToken |-> w.token # NoToken, interval |-> FALSE]]
        w2 == InitAuth(w1)
    IN IF routeChanged THEN CheckAndRedirect(w2) ELSE w2

\* the setInterval callback
IntervalFire(w) ==
    IF w.online THEN InitAuth(w) ELSE [w EXCEPT !.ev.note = "offline"]

\* the debounce timer's callback
TimerFire(w, cleaned) ==
    CheckAuthStart([w EXCEPT !.timer = FALSE], "effect", cleaned)

----------------------------------------------------------------------------
(* Actions of the browser *)

\* a fetch that is pending when the network is down fails or times out
OfflineKinds == {"networkError", "abort"}
Answers(kinds) == IF online THEN kinds ELSE kinds \cap OfflineKinds

Start(op) == [World EXCEPT !.ev = NoEv(op)]
StartOn(op, kind) == [World EXCEPT !.ev = [NoEv(op) EXCEPT !.inp = kind]]

\* a user or environment event: it resets `checked` and counts against MaxOps
UserStart(op) == [World EXCEPT !.ev = [NoEv(op) EXCEPT !.inp = "call"],
                               !.checked = FALSE, !.ops = @ + 1]

Records == Roles

AEffectRun ==
    /\ eff.pc = "unmounted" \/ DepsChanged(World)
    /\ Commit(EffectRun(Start("effect")))

AIntervalFire ==
    /\ eff.interval /\ eff.pc = "done" /\ checkDue
    /\ ~DepsChanged(World)
    /\ Commit(IntervalFire(Start("interval")))

ATimerFire ==
    /\ timer /\ ca.pc = "idle"
    /\ \E cleaned \in BOOLEAN : Commit(TimerFire(Start("checkAuth"), cleaned))

AProfileResponse ==
    \E kind \in Answers(ProfileKinds), rec \in Records, cleaned \in BOOLEAN :
        /\ ca.pc = "profile"
        /\ kind = "ok" \/ rec = "USER"
        /\ Commit(ProfileResponse(StartOn("checkAuth", kind), kind, rec, cleaned))

ARefreshResponse ==
    \E kind \in Answers(RefreshKinds), tok \in Tokens, cleaned \in BOOLEAN :
        /\ ca.pc = "refresh"
        /\ kind = "ok" \/ tok = "t1"
        /\ Commit(RefreshResponse(StartOn("checkAuth", kind), kind, tok, cleaned))

ARetryResponse ==
    \E kind \in Answers(RetryKinds), rec \in Records, cleaned \in BOOLEAN :
        /\ ca.pc = "retry"
        /\ kind = "ok" \/ rec = "USER"
        /\ Commit(RetryResponse(StartOn("checkAuth", kind), kind, rec, cleaned))

ABackoffDone ==
    \E cleaned \in BOOLEAN :
        /\ ca.pc = "backoff"
        /\ Commit(CaBackoffDone(Start("checkAuth"), cleaned))

ALoginStart ==
    /\ lg.pc = "idle" /\ ops < MaxOps
    /\ Commit(LoginStart(UserStart("login")))

ALoginResponse ==
    \E kind \in Answers(LoginKinds), tok \in Tokens, cleaned \in BOOLEAN :
        /\ lg.pc = "login"
        /\ kind = "ok" => ca.pc = "idle"
        /\ kind = "ok" \/ tok = "t1"
        /\ Commit(LoginResponse(StartOn("login", kind), kind, tok, cleaned))

ALoginProfileResponse ==
    \E kind \in Answers(LoginProfileKinds), rec \in Records :
        /\ lg.pc = "profile"
        /\ kind = "ok" \/ rec = "USER"
        /\ Commit(LoginProfileResponse(StartOn("login", kind), kind, rec))

ALoginBackoffDone ==
    /\ lg.pc = "backoff" /\ ca.pc = "idle"
    /\ \E cleaned \in BOOLEAN : Commit(LoginAttempt(Start("login"), cleaned))

ALogout ==
    /\ ops < MaxOps
    /\ Commit(Logout(UserStart("logout")))

ANetworkChange ==
    /\ ops < MaxOps
    /\ Commit([UserStart("env") EXCEPT !.online = ~online])

AUserNavigates ==
    \E r \in Routes :
        /\ r # route /\ ops < MaxOps
        /\ Commit([UserStart("env") EXCEPT !.route = r])

ATimePasses ==
    /\ ~checkDue /\ ops < MaxOps
    /\ Commit([UserStart("env") EXCEPT !.checkDue = TRUE])

\* the checkAuth steps, whoever awaits the call
CheckAuthNext ==
    \/ AProfileResponse
    \/ ARefreshResponse
    \/ ARetryResponse
    \/ ABackoffDone

\* the page with the hook mounted: the effect, its timers and the checks they start
SessionNext ==
    \/ AEffectRun
    \/ AIntervalFire
    \/ ATimerFire
    \/ CheckAuthNext
    \/ ALogout
    \/ ANetworkChange
    \/ AUserNavigates
    \/ ATimePasses

\* calls of login() and logout() and the checks login awaits
LoginNext ==
    \/ ALoginStart
    \/ ALoginResponse
    \/ ALoginProfileResponse
    \/ ALoginBackoffDone
    \/ CheckAuthNext
    \/ ALogout
    \/ ANetworkChange

----------------------------------------------------------------------------
(* The admin parser endpoint. One step is one database call together with
   the handler code that runs when its answer arrives. *)

MaxReq == 2
MaxTime == 2
TickMinutes == 20
StaleMinutes == 30

Reqs == 1..MaxReq
NoRow == [id |-> 0, status |-> "none", lastRun |-> now, processedItems |-> 0, errors |-> <<>>]

StartedMessage == "Parser started"
StoppedMessage == "Parser stopped"
ErrorMessage == "Parser error"
TimeoutNote == "Previous session was interrupted by timeout"
RunError == "run failed"

\* cur, age: the status that findFirst returned and how old its lastRun was, in ticks
NoReq == [pc |-> "none", act |-> "-", cur |-> "-", age |-> 0, keys |-> FALSE,
          sel |-> "-", resp |-> 0, writes |-> <<>>]

\* prisma.parserStatus.findFirst(): the row with the smallest id, if any
FindFirst(tbl) ==
    IF tbl = {} THEN NoRow
    ELSE CHOOSE row \in tbl : \A other \in tbl : row.id <= other.id

HasRow(tbl, id) == \E row \in tbl : row.id = id

\* prisma.parserStatus.update({where: {id}, data: {status, errors}})
UpdateStatus(tbl, id, status, errors) ==
    {IF row.id = id THEN [row EXCEPT !.status = status, !.errors = errors] ELSE row
       : row \in tbl}

\* prisma.parserStatus.upsert({where: {id: 1}, create: {...}, update: {...}}):
\* both branches write status active, lastRun now, processedItems 0, errors [].
\* The create data carries no id, so the client looks the row up and then
\* updates or inserts; found is what the lookup saw, and the insert takes its
\* id from the sequence.
UpsertActive(tbl, seq, t, found) ==
    IF found
    THEN {IF row.id = 1
          THEN [row EXCEPT !.status = "active", !.lastRun = t,
                           !.processedItems = 0, !.errors = <<>>]
          ELSE row : row \in tbl}
    ELSE tbl \cup {[id |-> seq + 1, status |-> "active", lastRun |-> t,
                    processedItems |-> 0, errors |-> <<>>]}

UpsertSeq(found, seq) == IF found THEN seq ELSE seq + 1

LogRow(message, error, r) == [message |-> message, error |-> error, by |-> r]

\* mutant: the comparison is the wrong way round
IsStaleReversed(lastRun, t) == lastRun * TickMinutes > t * TickMinutes - StaleMinutes

\* new Date(currentStatus.lastRun) < new Date(Date.now() - 30 * 60 * 1000)
IsStale(lastRun, t) == lastRun * TickMinutes < t * TickMinutes - StaleMinutes

\* mutant: a stale lock is not reset before the upsert
StartDecideNoReset(cur, t) ==
    IF cur.status = "active"
    THEN IF rev = 1 /\ IsStale(cur.lastRun, t) THEN "txn" ELSE "reject"
    ELSE "txn"

\* the start branch once currentStatus is known
StartDecide(cur, t) ==
    IF cur.status = "active"
    THEN IF rev = 1 /\ IsStale(cur.lastRun, t) THEN "reset" ELSE "reject"
    ELSE "txn"

Respond(f, code) == [f EXCEPT !.pc = "done", !.resp = code]

\* a request arrives (the caller is an admin); keys: the body carries both API keys
PRequest ==
    \E r \in Reqs, act \in {"start", "stop"}, keys \in BOOLEAN :
        /\ rq[r].pc = "none"
        /\ \A q \in Reqs : q < r => rq[q].pc # "none"
        /\ rq' = [rq EXCEPT ![r] = [NoReq EXCEPT !.pc = "find", !.act = act, !.keys = keys]]
        /\ UNCHANGED <<rev, now, parserStatus, parserLog, statusSeq, envKeys, jobs>>
        /\ UNCHANGED nonParserVars

\* const currentStatus = await prisma.parserStatus.findFirst(), start branch
PStartFind ==
    \E r \in Reqs :
        /\ rq[r].pc = "find" /\ rq[r].act = "start"
        /\ LET cur == FindFirst(parserStatus)
               f == [rq[r] EXCEPT !.cur = cur.status, !.age = now - cur.lastRun]
               d == StartDecide(cur, now)
           IN rq' = [rq EXCEPT ![r] = IF d = "reject" THEN Respond(f, 400)
                                      ELSE [f EXCEPT !.pc = d]]
        /\ UNCHANGED <<rev, now, parserStatus, parserLog, statusSeq, envKeys, jobs>>
        /\ UNCHANGED nonParserVars

\* stale-lock recovery: update({where: {id: 1}, data: {status: 'inactive', errors: [..]}})
PStartReset ==
    \E r \in Reqs :
        /\ rq[r].pc = "reset"
        /\ IF HasRow(parserStatus, 1)
           THEN /\ parserStatus' = UpdateStatus(parserStatus, 1, "inactive", <<TimeoutNote>>)
                /\ rq' = [rq EXCEPT ![r].pc = "txn", ![r].writes = Append(@, "inactive")]
           ELSE /\ rq' = [rq EXCEPT ![r] = Respond(@, 500)]
                /\ UNCHANGED parserStatus
        /\ UNCHANGED <<rev, now, parserLog, statusSeq, envKeys, jobs>>
        /\ UNCHANGED nonParserVars

\* which keys the start branch looks at: the request body, or process.env
StartKeys(f) == IF rev = 1 THEN f.keys ELSE envKeys

\* the answer when the keys are missing
MissingKeysCode == IF rev = 1 THEN 400 ELSE 500

\* the upsert looks up the row with id 1
PStartSelect ==
    \E r \in Reqs :
        /\ rq[r].pc = "txn" /\ rq[r].act = "start" /\ rq[r].sel = "-"
        /\ rq' = [rq EXCEPT ![r].sel = IF HasRow(parserStatus, 1) THEN "found" ELSE "absent"]
        /\ UNCHANGED <<rev, now, parserStatus, parserLog, statusSeq, envKeys, jobs>>
        /\ UNCHANGED nonParserVars

\* the write of the upsert (with the 'started' log row in one transaction in
\* revision 1), then the key check and the launch of mediaParser.start()
PStartTxn ==
    \E r \in Reqs :
        /\ rq[r].pc = "txn" /\ rq[r].act = "start" /\ rq[r].sel # "-"
        /\ parserStatus' = UpsertActive(parserStatus, statusSeq, now, rq[r].sel = "found")
        /\ statusSeq' = UpsertSeq(rq[r].sel = "found", statusSeq)
        /\ parserLog' = IF rev = 1 THEN Append(parserLog, LogRow(StartedMessage, "", r))
                        ELSE parserLog
        /\ LET f == [rq[r] EXCEPT !.writes = Append(@, "active")] IN
           IF StartKeys(f)
           THEN /\ jobs' = [jobs EXCEPT ![r] = "running"]
                /\ rq' = [rq EXCEPT ![r] = Respond(f, 200)]
           ELSE /\ jobs' = jobs
                /\ rq' = [rq EXCEPT ![r] = Respond(f, MissingKeysCode)]
        /\ UNCHANGED <<rev, now, envKeys>>
        /\ UNCHANGED nonParserVars

\* mutant: stop goes on whatever status it read
StopDecideAlways(cur) == "txn"

\* if (currentStatus?.status !== 'active') return res.status(400)
StopDecide(cur) == IF cur.status # "active" THEN "reject" ELSE "txn"

\* const currentStatus = await prisma.parserStatus.findFirst(), stop branch
PStopFind ==
    \E r \in Reqs :
        /\ rq[r].pc = "find" /\ rq[r].act = "stop"
        /\ LET cur == FindFirst(parserStatus)
               f == [rq[r] EXCEPT !.cur = cur.status, !.age = now - cur.lastRun]
           IN rq' = [rq EXCEPT ![r] = IF StopDecide(cur) = "reject" THEN Respond(f, 400)
                                      ELSE [f EXCEPT !.pc = "txn"]]
        /\ UNCHANGED <<rev, now, parserStatus, parserLog, statusSeq, envKeys, jobs>>
        /\ UNCHANGED nonParserVars

\* update to inactive (with the 'stopped' log row in revision 1), then the key check
PStopTxn ==
    \E r \in Reqs :
        /\ rq[r].pc = "txn" /\ rq[r].act = "stop"
        /\ IF HasRow(parserStatus, 1)
           THEN /\ parserStatus' = UpdateStatus(parserStatus, 1, "inactive", <<>>)
                /\ parserLog' = IF rev = 1
                                THEN Append(parserLog, LogRow(StoppedMessage, "", r))
                                ELSE parserLog
                /\ rq' = [rq EXCEPT ![r] = Respond([@ EXCEPT !.writes = Append(@, "inactive")],
                                                   IF envKeys THEN 200 ELSE 500)]
           ELSE /\ rq' = [rq EXCEPT ![r] = Respond(@, 500)]
                /\ UNCHANGED <<parserStatus, parserLog>>
        /\ UNCHANGED <<rev, now, statusSeq, envKeys, jobs>>
        /\ UNCHANGED nonParserVars

\* mediaParser.start() rejects: the .catch handler
PJobFails ==
    \E r \in Reqs :
        /\ jobs[r] = "running"
        /\ jobs' = [jobs EXCEPT ![r] = "failed"]
        /\ IF HasRow(parserStatus, 1)
           THEN /\ parserStatus' = UpdateStatus(parserStatus, 1, "error", <<RunError>>)
                /\ parserLog' = IF rev = 1
                                THEN Append(parserLog, LogRow(ErrorMessage, RunError, r))
                                ELSE parserLog
           ELSE UNCHANGED <<parserStatus, parserLog>>
        /\ UNCHANGED <<rev, now, statusSeq, envKeys, rq>>
        /\ UNCHANGED nonParserVars

\* mediaParser.start() resolves
PJobCompletes ==
    \E r \in Reqs :
        /\ jobs[r] = "running"
        /\ jobs' = [jobs EXCEPT ![r] = "finished"]
        /\ UNCHANGED <<rev, now, parserStatus, parserLog, statusSeq, envKeys, rq>>
        /\ UNCHANGED nonParserVars

PTick ==
    /\ now < MaxTime
    /\ now' = now + 1
    /\ UNCHANGED <<rev, parserStatus, parserLog, statusSeq, envKeys, jobs, rq>>
    /\ UNCHANGED nonParserVars

ParserNext ==
    \/ PRequest
    \/ PStartFind
    \/ PStartReset
    \/ PStartSelect
    \/ PStartTxn
    \/ PStopFind
    \/ PStopTxn
    \/ PJobFails
    \/ PJobCompletes
    \/ PTick

----------------------------------------------------------------------------
(* The same endpoint, GET and PUT: the settings row and the response cache.
   The callers are two admins, so the cache Map has two keys. The five fields of
   a settings row are one value. *)

MaxSReq == 2
CacheTtl == 60000
CacheLifetime == 5000

SReqs == 1..MaxSReq
SettingsValues == {"s1", "s2"}
DefaultSettings == "default"
NoSettings == "null"
NoCache == [has |-> FALSE, settings |-> NoSettings, status |-> "none", at |-> 0, by |-> 0]
NoPuts == [n |-> 0, last |-> NoSettings]

\* gen, expect: how many PUTs had succeeded when the request arrived and what
\* the last of them saved; genEnd: how many had when it was answered
NoSReq == [pc |-> "none", kind |-> "-", uid |-> 0, val |-> NoSettings, gen |-> 0,
           expect |-> NoSettings, genEnd |-> 0, resp |-> 0, body |-> "-", src |-> "-"]

\* the admins who call the endpoint (payload.userId)
AdminIds == {1, 2}

\* the values Date.now() takes, in milliseconds after the first request: the
\* start, cacheLifetime later and CACHE_TTL later
Instants == <<0, CacheLifetime, CacheTtl>>

DateNow == Instants[instant]

\* Date.now() - timestamp, in milliseconds
AgeMs(at, t) == t - at

\* getCachedData(key): the value if it is younger than CACHE_TTL, else null
GetCachedData(c, t) == IF c.has /\ AgeMs(c.at, t) < CacheTtl THEN c ELSE NoCache

\* getCachedData also deletes an entry it does not return
CacheAfterGet(c, t) == GetCachedData(c, t)

\* mutant: whatever getCachedData returns is served
CacheHitAlways(c, t) == GetCachedData(c, t).has

\* revision 1: cachedData && Date.now() - cachedData.timestamp < cacheLifetime;
\* revision 2: if (cachedData)
CacheHit(c, t) ==
    LET d == GetCachedData(c, t) IN
    IF rev = 1 THEN d.has /\ AgeMs(d.at, t) < CacheLifetime ELSE d.has

\* prisma.parserSettings.findFirst()
FirstSettings(tbl) ==
    IF tbl = {} THEN NoSettings
    ELSE (CHOOSE row \in tbl : \A other \in tbl : row.id <= other.id).val

\* prisma.parserSettings.upsert({where: {id: 1}, create: {..}, update: {..}})
UpsertSettings(tbl, seq, val) ==
    IF HasRow(tbl, 1)
    THEN {IF row.id = 1 THEN [row EXCEPT !.val = val] ELSE row : row \in tbl}
    ELSE tbl \cup {[id |-> seq + 1, val |-> val]}

SRespond(f, code, body) ==
    [f EXCEPT !.pc = "done", !.resp = code, !.body = body, !.genEnd = puts.n]

\* a GET or a PUT arrives; the caller has passed the admin guard
SRequest ==
    \E r \in SReqs, kind \in {"GET", "PUT"}, val \in SettingsValues, uid \in AdminIds :
        /\ sq[r].pc = "none"
        /\ \A q \in SReqs : q < r => sq[q].pc # "none"
        /\ kind = "PUT" \/ val = "s1"
        /\ kind = "GET" \/ uid = 1
        /\ sq' = [sq EXCEPT ![r] = [NoSReq EXCEPT !.pc = IF kind = "GET" THEN "cache" ELSE "upsert",
                                                   !.kind = kind, !.uid = uid,
                                                   !.val = IF kind = "PUT" THEN val ELSE NoSettings,
                                                   !.gen = puts.n, !.expect = puts.last]]
        /\ UNCHANGED <<settingsTbl, settingsSeq, cache, instant, puts>>
        /\ UNCHANGED <<authVars, parserVars, guardVars, videoVars, pageVars>>

\* GET: the cache lookup
SGetCache ==
    \E r \in SReqs :
        /\ sq[r].pc = "cache"
        /\ cache' = [cache EXCEPT ![sq[r].uid] = CacheAfterGet(@, DateNow)]
        /\ sq' = [sq EXCEPT ![r] = IF CacheHit(cache[sq[r].uid], DateNow)
                                   THEN [SRespond(@, 200, cache[sq[r].uid].settings)
                                            EXCEPT !.src = "cache"]
                                   ELSE [@ EXCEPT !.pc = "read"]]
        /\ UNCHANGED <<settingsTbl, settingsSeq, instant, puts>>
        /\ UNCHANGED <<authVars, parserVars, guardVars, videoVars, pageVars>>

\* GET: both findFirst calls, setCachedData, and the test !settings || !status
SGetRead ==
    \E r \in SReqs :
        /\ sq[r].pc = "read"
        /\ LET st == FirstSettings(settingsTbl)
               status == FindFirst(parserStatus).status
           IN /\ cache' = [cache EXCEPT ![sq[r].uid] =
                                [has |-> TRUE, settings |-> st, status |-> status, at |-> DateNow,
                                 by |-> sq[r].uid]]
              /\ sq' = [sq EXCEPT ![r] = IF st = NoSettings \/ status = "none"
                                         THEN [@ EXCEPT !.pc = "init"]
                                         ELSE SRespond(@, 200, st)]
        /\ UNCHANGED <<settingsTbl, settingsSeq, instant, puts>>
        /\ UNCHANGED <<authVars, parserVars, guardVars, videoVars, pageVars>>

\* GET: the transaction that creates both rows with id 1; a row with that id
\* makes the create fail and the request answer 503
SGetInit ==
    \E r \in SReqs :
        /\ sq[r].pc = "init"
        /\ IF HasRow(settingsTbl, 1) \/ HasRow(parserStatus, 1)
           THEN /\ sq' = [sq EXCEPT ![r] = SRespond(@, 503, "-")]
                /\ UNCHANGED <<settingsTbl, parserStatus>>
           ELSE /\ settingsTbl' = settingsTbl \cup {[id |-> 1, val |-> DefaultSettings]}
                /\ parserStatus' = parserStatus \cup
                       {[id |-> 1, status |-> "inactive", lastRun |-> now,
                         processedItems |-> 0, errors |-> <<>>]}
                /\ sq' = [sq EXCEPT ![r].pc = "reread"]
        /\ UNCHANGED <<settingsSeq, cache, instant, puts>>
        /\ UNCHANGED <<authVars, guardVars, videoVars, pageVars, rev, now, parserLog, statusSeq, envKeys, jobs, rq>>

\* GET: the reads after the initialisation, and the answer
SGetReread ==
    \E r \in SReqs :
        /\ sq[r].pc = "reread"
        /\ sq' = [sq EXCEPT ![r] = SRespond(@, 200, FirstSettings(settingsTbl))]
        /\ UNCHANGED <<settingsTbl, settingsSeq, cache, instant, puts>>
        /\ UNCHANGED <<authVars, parserVars, guardVars, videoVars, pageVars>>

\* PUT: the upsert and the answer
SPut ==
    \E r \in SReqs :
        /\ sq[r].pc = "upsert"
        /\ settingsTbl' = UpsertSettings(settingsTbl, settingsSeq, sq[r].val)
        /\ settingsSeq' = IF HasRow(settingsTbl, 1) THEN settingsSeq ELSE settingsSeq + 1
        /\ puts' = [n |-> puts.n + 1, last |-> sq[r].val]
        /\ sq' = [sq EXCEPT ![r] = [SRespond(@, 200, sq[r].val) EXCEPT !.genEnd = puts.n + 1]]
        /\ UNCHANGED <<cache, instant>>
        /\ UNCHANGED <<authVars, parserVars, guardVars, videoVars, pageVars>>

\* time passes between two steps of the handler
SClock ==
    /\ instant < Len(Instants)
    /\ instant' = instant + 1
    /\ UNCHANGED <<settingsTbl, settingsSeq, cache, puts, sq>>
    /\ UNCHANGED <<authVars, parserVars, guardVars, videoVars, pageVars>>

SettingsNext ==
    \/ SRequest
    \/ SGetCache
    \/ SGetRead
    \/ SGetInit
    \/ SGetReread
    \/ SPut
    \/ SClock

SettingsQuiet ==
    /\ settingsTbl = {}
    /\ settingsSeq = 0
    /\ cache = [u \in AdminIds |-> NoCache]
    /\ instant = 1
    /\ puts = NoPuts
    /\ sq = [r \in SReqs |-> NoSReq]

----------------------------------------------------------------------------
(* The guard of the admin endpoints: parser, parser/history, content,
   users/role, stats. verifyToken answers the payload of a token the server
   signed and null for anything else. *)

MaxGReq == 1

GReqs == 1..MaxGReq
UserIds == {1, 2}
Endpoints == {"parser", "history", "content", "role", "stats"}
Methods == {"GET", "POST", "PUT", "DELETE"}
\* the Authorization header: absent, without a second word, a bad token, or a
\* token signed for user 1, 2 or 3 (3: a user whose row is gone)
SignedTokens == {"tok1", "tok2", "tok3"}
Headers == {"absent", "malformed", "invalid"} \cup SignedTokens

NoGReq == [pc |-> "none", ep |-> "-", method |-> "-", hdr |-> "absent",
           target |-> 1, role |-> "USER", seen |-> "-", resp |-> 0, acts |-> <<>>]

\* the methods an endpoint serves
Serves(ep) ==
    CASE ep = "parser" -> {"GET", "POST", "PUT"}
      [] ep = "content" -> {"GET", "DELETE"}
      [] ep = "role" -> {"PUT"}
      [] OTHER -> {"GET"}

\* users/role and stats test req.method before anything else
MethodFirst(ep) == ep \in {"role", "stats"}

\* the token the handler extracts: authHeader.split(' ')[1]
TokenOf(hdr) == IF hdr \in {"absent", "malformed"} THEN "undefined" ELSE hdr

\* the test made before verifyToken: !authHeader, or !token in content and stats
NoCredentials(ep, hdr) ==
    IF ep \in {"content", "stats"} THEN TokenOf(hdr) = "undefined" ELSE hdr = "absent"

\* verifyToken(token): the userId of the payload, 0 for a null payload
VerifyToken(tok) ==
    CASE tok = "tok1" -> 1
      [] tok = "tok2" -> 2
      [] tok = "tok3" -> 3
      [] OTHER -> 0

\* prisma.user.findUnique({where: {id}, select: {role: true}})
RoleOf(tbl, id) == IF id \in DOMAIN tbl THEN tbl[id] ELSE "none"

\* mutant: any user row passes
IsAdminAny(role) == role # "none"

\* !(!user || user.role !== 'ADMIN')
IsAdmin(role) == role = "ADMIN"

GRespond(f, code) == [f EXCEPT !.pc = "done", !.resp = code]

\* a request arrives; the handler runs up to `await verifyToken(token)`
GRequest ==
    \E r \in GReqs, ep \in Endpoints, m \in Methods, h \in Headers,
       t \in UserIds, ro \in Roles :
        /\ gq[r].pc = "none"
        /\ \A q \in GReqs : q < r => gq[q].pc # "none"
        /\ (ep = "role" /\ m = "PUT") \/ (t = 1 /\ ro = "USER")
        /\ LET f == [NoGReq EXCEPT !.ep = ep, !.method = m, !.hdr = h,
                                   !.target = t, !.role = ro]
           IN gq' = [gq EXCEPT ![r] =
                  IF MethodFirst(ep) /\ m \notin Serves(ep) THEN GRespond(f, 405)
                  ELSE IF NoCredentials(ep, h) THEN GRespond(f, 401)
                  ELSE [f EXCEPT !.pc = "verify"]]
        /\ UNCHANGED <<users, media>>
        /\ UNCHANGED nonGuardVars

\* verifyToken has answered: !payload || typeof payload.userId !== 'number'
GVerify ==
    \E r \in GReqs :
        /\ gq[r].pc = "verify"
        /\ gq' = [gq EXCEPT ![r] = IF VerifyToken(TokenOf(@.hdr)) = 0
                                   THEN GRespond(@, 401)
                                   ELSE [@ EXCEPT !.pc = "user"]]
        /\ UNCHANGED <<users, media>>
        /\ UNCHANGED nonGuardVars

\* findUnique has answered: the role test, then the handler up to its next await
GFindUser ==
    \E r \in GReqs :
        /\ gq[r].pc = "user"
        /\ LET role == RoleOf(users, VerifyToken(TokenOf(gq[r].hdr)))
               f == [gq[r] EXCEPT !.seen = role]
           IN gq' = [gq EXCEPT ![r] =
                  IF ~IsAdmin(role) THEN GRespond(f, 403)
                  ELSE IF f.method \notin Serves(f.ep) THEN GRespond(f, 405)
                  ELSE [f EXCEPT !.pc = "body"]]
        /\ UNCHANGED <<users, media>>
        /\ UNCHANGED nonGuardVars

\* the body of the endpoint: what it reads or writes, and its answer
GBody ==
    \E r \in GReqs :
        /\ gq[r].pc = "body"
        /\ LET f == gq[r] IN
           CASE f.ep = "content" /\ f.method = "DELETE" ->
                  /\ media' = media \ {1}
                  /\ users' = users
                  /\ gq' = [gq EXCEPT ![r] = GRespond([f EXCEPT !.acts = Append(@, "media")],
                                                      IF 1 \in media THEN 200 ELSE 404)]
             [] f.ep = "role" ->
                  /\ users' = [users EXCEPT ![f.target] = f.role]
                  /\ media' = media
                  /\ gq' = [gq EXCEPT ![r] = GRespond([f EXCEPT !.acts = Append(@, "users")], 200)]
             [] OTHER ->
                  /\ UNCHANGED <<users, media>>
                  /\ gq' = [gq EXCEPT ![r] = GRespond([f EXCEPT !.acts = Append(@, f.ep)], 200)]
        /\ UNCHANGED nonGuardVars

GuardNext ==
    \/ GRequest
    \/ GVerify
    \/ GFindUser
    \/ GBody

GuardQuiet ==
    /\ users = [u \in UserIds |-> IF u = 1 THEN "ADMIN" ELSE "USER"]
    /\ media = {1}
    /\ gq = [r \in GReqs |-> NoGReq]

----------------------------------------------------------------------------
\* VideoProcessor (services/parser/videoProcessor.ts): processMediaVideo and
\* its helpers, one step per await.

MaxVCall == 2

VCalls == 1..MaxVCall

\* ids asked for: 1 has a row in table Media, 2 has none
MediaIds == {1, 2}

ReleaseDates == 0..(MaxTime + 1)

\* what the request to the trailer API gives: a YOUTUBE/TRAILER item with a
\* url, no such item, or a failed request
TrailerKinds == {"url", "none", "error"}

NoVCall == [pc |-> "idle", id |-> 0, found |-> FALSE, dated |-> FALSE, date |-> 0, at |-> 0,
            calls |-> <<>>, srcs |-> <<>>, rows |-> <<>>, trailer |-> "none",
            err |-> "none", out |-> "none", set |-> FALSE]

\* mutant: every item counts as released
IsReleasedAlways(row, t) == TRUE

\* media.release_date && new Date(media.release_date) <= new Date()
IsReleased(row, t) == row.dated /\ row.date <= t

\* getVKVideoSources, getRuTubeVideoSources, getYouTubeVideoSources
ProviderSources(provider) == <<>>

\* sources.push(...) of the three providers, in order
GetVideoSources ==
    ProviderSources("vk") \o ProviderSources("rutube") \o ProviderSources("youtube")

\* mutant: the sources are saved whatever their number
AfterSourcesAlwaysSave(srcs) == "save"

\* if (videoSources.length === 0) processTrailer, else saveVideoSources
AfterSources(srcs) == IF Len(srcs) = 0 THEN "trailer" ELSE "save"

\* await this.processTrailer(..): runs up to the request of getTrailerUrl
CallTrailer(f) ==
    [f EXCEPT !.pc = "url", !.calls = @ \o <<"processTrailer", "getTrailerUrl">>]

\* an exception reaches the catch of processMediaVideo, which awaits
\* updateMediaStatus(mediaId, ERROR)
VThrow(f, e) ==
    [f EXCEPT !.pc = "catch", !.err = e, !.calls = Append(@, "updateMediaStatus")]

VReturn(f) == [f EXCEPT !.pc = "done", !.out = "returned"]

\* processMediaVideo(mediaId, sourceId) up to the await of findUnique
VStart ==
    \E c \in VCalls, id \in MediaIds :
        /\ vq[c].pc = "idle"
        /\ \A d \in VCalls : d < c => vq[d].pc # "idle"
        /\ vq' = [vq EXCEPT ![c] = [NoVCall EXCEPT !.pc = "find", !.id = id,
                                                   !.calls = <<"findUnique">>]]
        /\ UNCHANGED <<mediaTbl, videoSource>>
        /\ UNCHANGED nonVideoVars

\* findUnique has answered (or failed): the release test
VFind ==
    \E c \in VCalls, ok \in BOOLEAN :
        /\ vq[c].pc = "find"
        /\ LET row == mediaTbl[vq[c].id]
               f == [vq[c] EXCEPT !.found = row.exists, !.dated = row.dated,
                                  !.date = row.date, !.at = now]
           IN vq' = [vq EXCEPT ![c] =
                  IF ~ok THEN VThrow(vq[c], "dbError")
                  ELSE IF ~row.exists THEN VThrow(f, "notFound")
                  ELSE IF ~IsReleased(row, now) THEN CallTrailer(f)
                  ELSE [f EXCEPT !.pc = "sources",
                                 !.calls = @ \o <<"getVideoSources", "getVKVideoSources">>]]
        /\ UNCHANGED <<mediaTbl, videoSource>>
        /\ UNCHANGED nonVideoVars

\* the rest of getVideoSources, and what processMediaVideo does with its result
VSources ==
    \E c \in VCalls :
        /\ vq[c].pc = "sources"
        /\ LET f == [vq[c] EXCEPT !.srcs = GetVideoSources,
                        !.calls = @ \o <<"getRuTubeVideoSources", "getYouTubeVideoSources">>]
           IN vq' = [vq EXCEPT ![c] =
                  IF AfterSources(f.srcs) = "trailer" THEN CallTrailer(f)
                  ELSE [f EXCEPT !.pc = "write", !.rows = f.srcs,
                                 !.calls = Append(@, "saveVideoSources")]]
        /\ UNCHANGED <<mediaTbl, videoSource>>
        /\ UNCHANGED nonVideoVars

\* getTrailerUrl: the request has answered; a failed request gives null
VTrailerUrl ==
    \E c \in VCalls, k \in TrailerKinds :
        /\ vq[c].pc = "url"
        /\ LET f == [vq[c] EXCEPT !.trailer = k]
           IN vq' = [vq EXCEPT ![c] =
                  IF k = "url"
                  THEN [f EXCEPT !.pc = "write", !.calls = Append(@, "create"),
                                 !.rows = <<[media_id |-> f.id, type |-> "trailer"]>>]
                  ELSE VReturn(f)]
        /\ UNCHANGED <<mediaTbl, videoSource>>
        /\ UNCHANGED nonVideoVars

\* prisma.videoSource.create / createMany has answered (or failed)
VWrite ==
    \E c \in VCalls, ok \in BOOLEAN :
        /\ vq[c].pc = "write"
        /\ IF ok
           THEN /\ videoSource' = videoSource \o vq[c].rows
                /\ vq' = [vq EXCEPT ![c] = VReturn(vq[c])]
           ELSE /\ videoSource' = videoSource
                /\ vq' = [vq EXCEPT ![c] = VThrow(vq[c], "dbError")]
        /\ UNCHANGED mediaTbl
        /\ UNCHANGED nonVideoVars

\* updateMediaStatus has answered: prisma.media.update rejects when no row has
\* the id (or the database fails), else the catch rethrows what it caught
VCatch ==
    \E c \in VCalls, ok \in BOOLEAN :
        /\ vq[c].pc = "catch"
        /\ IF ok /\ mediaTbl[vq[c].id].exists
           THEN /\ mediaTbl' = [mediaTbl EXCEPT ![vq[c].id].status = "ERROR"]
                /\ vq' = [vq EXCEPT ![c] = [@ EXCEPT !.pc = "done", !.out = vq[c].err, !.set = TRUE]]
           ELSE /\ mediaTbl' = mediaTbl
                /\ vq' = [vq EXCEPT ![c] = [@ EXCEPT !.pc = "done", !.out = "updateError"]]
        /\ UNCHANGED videoSource
        /\ UNCHANGED nonVideoVars

VideoNext ==
    \/ VStart
    \/ VFind
    \/ VSources
    \/ VTrailerUrl
    \/ VWrite
    \/ VCatch
    \/ PTick

MediaRow(dated, date) ==
    [m \in MediaIds |-> [exists |-> m = 1, dated |-> m = 1 /\ dated,
                         date |-> IF m = 1 /\ dated THEN date ELSE 0, status |-> "ACTIVE"]]

VideoQuiet ==
    /\ mediaTbl = MediaRow(FALSE, 0)
    /\ videoSource = <<>>
    /\ vq = [c \in VCalls |-> NoVCall]

----------------------------------------------------------------------------
(* AdminLayout: the layout of the /admin pages. It calls useAuth() and runs
   one effect, on mount and whenever isAuthenticated, isAdmin or isLoading
   has changed since the effect last ran. The effects of useAuth are declared
   first and run first. *)

NoLayout == [pc |-> "unmounted", auth |-> FALSE, admin |-> FALSE,
             loading |-> FALSE, isAuthorized |-> FALSE]

\* isAuthenticated, isAdmin (user?.role === 'ADMIN') and isLoading of useAuth()
LayoutDeps == <<store.isAuthenticated, store.profile = "ADMIN", store.loading>>

\* !token || !isAuthenticated || !isAdmin
LayoutRefuses ==
    token = NoToken \/ ~store.isAuthenticated \/ store.profile # "ADMIN"

\* the effect: if (isLoading) return; then redirect or setIsAuthorized(true)
ALayoutEffect ==
    /\ IsAdminPage(route)
    /\ eff.pc # "unmounted" /\ ~DepsChanged(World)
    /\ layout.pc = "unmounted" \/ <<layout.auth, layout.admin, layout.loading>> # LayoutDeps
    /\ layout' = [pc |-> "mounted", auth |-> LayoutDeps[1], admin |-> LayoutDeps[2],
                  loading |-> LayoutDeps[3],
                  isAuthorized |-> IF store.loading THEN layout.isAuthorized
                                   ELSE ~LayoutRefuses]
    /\ route' = IF ~store.loading /\ LayoutRefuses THEN LoginRoute ELSE route
    /\ ev' = [NoEv("layout") EXCEPT !.res = IF store.loading THEN "loading"
                                             ELSE IF LayoutRefuses THEN "redirect"
                                             ELSE "authorized"]
    /\ UNCHANGED <<store, token, online, checkDue, timer, eff, ca, lg, checked, ops>>
    /\ UNCHANGED <<parserVars, settingsVars, guardVars, videoVars, verifyVars, contentVars>>

\* the router has left the /admin pages
ALayoutUnmount ==
    /\ layout.pc = "mounted" /\ ~IsAdminPage(route)
    /\ layout' = NoLayout
    /\ ev' = NoEv("layoutUnmount")
    /\ UNCHANGED <<store, token, online, route, checkDue, timer, eff, ca, lg, checked, ops>>
    /\ UNCHANGED <<parserVars, settingsVars, guardVars, videoVars, verifyVars, contentVars>>

LayoutNext ==
    \/ SessionNext
    \/ ALayoutEffect
    \/ ALayoutUnmount

LayoutQuiet == layout = NoLayout

----------------------------------------------------------------------------
(* POST /api/auth/verify. One user, whose registration has stored one code;
   the requests carry that user's email. A code row references its user by
   email, so the lookup never returns a code without a user. *)

MaxKReq == 2

KReqs == 1..MaxKReq
CodeValues == {"c1", "c2", ""}
CodeRow == [code |-> "c1", expires_at |-> 1]
NoKReq == [pc |-> "none", method |-> "-", code |-> "-", resp |-> 0, token |-> FALSE]

KRespond(f, status) == [f EXCEPT !.pc = "done", !.resp = status]

\* findFirst({ where: { email, code, expires_at: { gt: new Date() } } })
FindCode(tbl, code, t) ==
    \E row \in tbl : row.code = code /\ row.expires_at > t

\* the method test and the test of the body
KRequest ==
    \E r \in KReqs, method \in {"POST", "GET"}, code \in CodeValues :
        /\ kq[r].pc = "none"
        /\ \A q \in KReqs : q < r => kq[q].pc # "none"
        /\ method = "POST" \/ code = "c1"
        /\ kq' = [kq EXCEPT ![r] =
                    LET f == [NoKReq EXCEPT !.method = method, !.code = code] IN
                    IF method # "POST" THEN KRespond(f, 405)
                    ELSE IF code = "" THEN KRespond(f, 400)
                    ELSE [f EXCEPT !.pc = "find"]]
        /\ UNCHANGED <<codes, verified>>
        /\ UNCHANGED <<authVars, parserVars, settingsVars, guardVars, videoVars, layoutVars, contentVars>>

\* the lookup of the code
KFind ==
    \E r \in KReqs :
        /\ kq[r].pc = "find"
        /\ kq' = [kq EXCEPT ![r] = IF FindCode(codes, kq[r].code, now)
                                   THEN [@ EXCEPT !.pc = "update"]
                                   ELSE KRespond(@, 400)]
        /\ UNCHANGED <<codes, verified>>
        /\ UNCHANGED <<authVars, parserVars, settingsVars, guardVars, videoVars, layoutVars, contentVars>>

\* user.update({ where: { email }, data: { is_verified: true } })
KUpdate ==
    \E r \in KReqs :
        /\ kq[r].pc = "update"
        /\ verified' = TRUE
        /\ kq' = [kq EXCEPT ![r].pc = "delete"]
        /\ UNCHANGED codes
        /\ UNCHANGED <<authVars, parserVars, settingsVars, guardVars, videoVars, layoutVars, contentVars>>

\* verificationCode.deleteMany({ where: { email } }), generateToken, 200
KDelete ==
    \E r \in KReqs :
        /\ kq[r].pc = "delete"
        /\ codes' = {}
        /\ kq' = [kq EXCEPT ![r] = [KRespond(@, 200) EXCEPT !.token = TRUE]]
        /\ UNCHANGED verified
        /\ UNCHANGED <<authVars, parserVars, settingsVars, guardVars, videoVars, layoutVars, contentVars>>

VerifyNext ==
    \/ KRequest
    \/ KFind
    \/ KUpdate
    \/ KDelete
    \/ PTick

VerifyQuiet ==
    /\ codes = {CodeRow}
    /\ verified = FALSE
    /\ kq = [r \in KReqs |-> NoKReq]

----------------------------------------------------------------------------
(* ContentManagement.fetchMediaItems and its retry timer. The function is
   created anew by every render and reads retryCount, lastFetchTime and
   mediaItems from the render that created it; the timer callback
   () => fetchMediaItems() calls the function that scheduled it. crev 1 is
   the component of the content page, crev 2 that of pages/admin/users.tsx.
   The clock counts whole CACHE_DURATIONs of the revision; the search box
   is empty. *)

MaxRetries == 3
CacheDuration == 60000
CacheDurationUsers == 300000
MaxCCall == 2
MaxTimerRuns == 4
MaxCTime == 2

CCalls == 1..MaxCCall
ContentKinds == {"ok", "unauthorized", "failed", "abort"}

\* seenRetry, seenItems, seenLast: retryCount, mediaItems.length > 0 and
\* lastFetchTime of the render that created the function; at: Date.now() at
\* its last invocation; timerRuns: how often the retry timer has invoked it;
\* sent: the requests it has sent; res: how its last invocation went on
NoCCall == [pc |-> "none", seenRetry |-> 0, seenItems |-> FALSE, seenLast |-> 0,
            at |-> 0, timerRuns |-> 0, sent |-> 0, res |-> "-"]
ContentIdle == [crev |-> 1, retryCount |-> 0, items |-> FALSE, lastFetch |-> 0,
                clock |-> 1, error |-> "-", calls |-> [c \in CCalls |-> NoCCall]]

CacheDurationOf(st) == IF st.crev = 1 THEN CacheDuration ELSE CacheDurationUsers

\* Date.now()
NowMs(st) == st.clock * CacheDurationOf(st)

\* catch: setError, setRetryCount(prev => prev + 1), setTimeout(() => fetchMediaItems(), ..);
\* revision 2 does so only if (retryCount < MAX_RETRIES)
CatchRetry(st, c, msg) ==
    IF st.crev = 1 \/ st.calls[c].seenRetry < MaxRetries
    THEN [st EXCEPT !.error = msg, !.retryCount = @ + 1, !.calls[c].pc = "timer"]
    ELSE [st EXCEPT !.error = msg, !.calls[c].pc = "done"]

\* fetchMediaItems() up to its fetch
FetchMediaItems(st, c, tok) ==
    LET f == st.calls[c] IN
    IF NowMs(st) - f.seenLast < CacheDurationOf(st) /\ f.seenItems
    THEN [st EXCEPT !.calls[c].pc = "done", !.calls[c].res = "cached"]
    ELSE IF f.seenRetry >= MaxRetries
    THEN [st EXCEPT !.error = IF st.crev = 1 THEN "maxRetries" ELSE "unexpected",
                    !.calls[c].pc = "done", !.calls[c].res = "gaveUp"]
    ELSE IF tok = NoToken
    THEN CatchRetry([st EXCEPT !.calls[c].res = "threw"], c, "noToken")
    ELSE [st EXCEPT !.error = "-", !.calls[c].pc = "fetch",
                    !.calls[c].at = NowMs(st), !.calls[c].sent = @ + 1,
                    !.calls[c].res = "sent"]

\* the code after the fetch
ContentResponse(st, c, kind) ==
    CASE kind = "ok" ->
           [st EXCEPT !.items = TRUE,
                      !.lastFetch = IF st.crev = 1 THEN NowMs(st) ELSE st.calls[c].at,
                      !.retryCount = IF st.crev = 1 THEN @ ELSE 0,
                      !.calls[c].pc = "done", !.calls[c].res = "loaded"]
      [] kind = "unauthorized" ->
           [st EXCEPT !.calls[c].pc = "done", !.calls[c].res = "redirect"]
      [] kind = "failed" -> CatchRetry(st, c, "failed")
      [] OTHER -> [st EXCEPT !.error = "timeout", !.calls[c].pc = "done",
                             !.calls[c].res = "aborted"]

\* an effect or the user calls the function of the current render
CCall ==
    \E c \in CCalls :
        /\ cq.calls[c].pc = "none"
        /\ \A d \in CCalls : d < c => cq.calls[d].pc # "none"
        /\ cq' = FetchMediaItems(
                    [cq EXCEPT !.calls[c] = [NoCCall EXCEPT !.seenRetry = cq.retryCount,
                                                            !.seenItems = cq.items,
                                                            !.seenLast = cq.lastFetch]],
                    c, token)
        /\ UNCHANGED <<authVars, parserVars, settingsVars, guardVars, videoVars, layoutVars, verifyVars>>

\* the answer of /api/admin/content; only revision 2 can abort its request
CResponse ==
    \E c \in CCalls, kind \in ContentKinds :
        /\ cq.calls[c].pc = "fetch"
        /\ kind = "abort" => cq.crev = 2
        /\ cq' = ContentResponse(cq, c, kind)
        /\ route' = IF kind = "unauthorized" THEN LoginRoute ELSE route
        /\ UNCHANGED <<store, token, online, checkDue, timer, eff, ca, lg, ev, checked, ops>>
        /\ UNCHANGED <<parserVars, settingsVars, guardVars, videoVars, layoutVars, verifyVars>>

\* the retry timer calls the function that armed it
CTimerFire ==
    \E c \in CCalls :
        /\ cq.calls[c].pc = "timer"
        /\ cq.calls[c].timerRuns < MaxTimerRuns
        /\ cq' = FetchMediaItems([cq EXCEPT !.calls[c].timerRuns = @ + 1], c, token)
        /\ UNCHANGED <<authVars, parserVars, settingsVars, guardVars, videoVars, layoutVars, verifyVars>>

CClock ==
    /\ cq.clock < MaxCTime
    /\ cq' = [cq EXCEPT !.clock = @ + 1]
    /\ UNCHANGED <<authVars, parserVars, settingsVars, guardVars, videoVars, layoutVars, verifyVars>>

ContentNext ==
    \/ CCall
    \/ CResponse
    \/ CTimerFire
    \/ CClock

ContentQuiet == cq = ContentIdle

PageQuiet == LayoutQuiet /\ VerifyQuiet /\ ContentQuiet

ParserFresh ==
    /\ now = 0
    /\ parserStatus = {}
    /\ parserLog = <<>>
    /\ statusSeq = 0
    /\ jobs = [r \in Reqs |-> "none"]
    /\ rq = [r \in Reqs |-> NoReq]
    /\ SettingsQuiet
    /\ GuardQuiet
    /\ VideoQuiet
    /\ PageQuiet

ParserQuiet ==
    /\ rev = 1
    /\ envKeys = TRUE
    /\ ParserFresh

AuthQuiet ==
    /\ store = InitialStore
    /\ token = NoToken
    /\ online = TRUE
    /\ route = HomeRoute
    /\ checkDue = TRUE
    /\ timer = FALSE
    /\ eff = UnmountedEff
    /\ ca = IdleCa
    /\ lg = IdleLg
    /\ ev = NoEv("init")
    /\ checked = FALSE
    /\ ops = 0

ParserInit ==
    /\ rev \in {1, 2}
    /\ envKeys \in BOOLEAN
    /\ ParserFresh
    /\ AuthQuiet

ParserSpec == ParserInit /\ [][ParserNext]_vars

\* the endpoint after earlier GETs: the initialisation has created both rows
\* and the first admin's GET has cached them
SettingsWarm ==
    /\ now = 0
    /\ parserStatus = {[id |-> 1, status |-> "inactive", lastRun |-> 0,
                        processedItems |-> 0, errors |-> <<>>]}
    /\ parserLog = <<>>
    /\ statusSeq = 0
    /\ jobs = [r \in Reqs |-> "none"]
    /\ rq = [r \in Reqs |-> NoReq]
    /\ settingsTbl = {[id |-> 1, val |-> DefaultSettings]}
    /\ settingsSeq = 0
    /\ cache = [u \in AdminIds |->
                  IF u = 1 THEN [has |-> TRUE, settings |-> DefaultSettings,
                                 status |-> "inactive", at |-> 0, by |-> 1]
                  ELSE NoCache]
    /\ instant = 1
    /\ puts = NoPuts
    /\ sq = [r \in SReqs |-> NoSReq]
    /\ GuardQuiet
    /\ VideoQuiet
    /\ PageQuiet

\* a fresh database, or the endpoint after earlier GETs
SettingsInit ==
    /\ rev \in {1, 2}
    /\ envKeys = TRUE
    /\ ParserFresh \/ SettingsWarm
    /\ AuthQuiet

SettingsSpec == SettingsInit /\ [][SettingsNext]_vars

GuardInit == ParserQuiet /\ AuthQuiet

GuardSpec == GuardInit /\ [][GuardNext]_vars

VideoInit ==
    /\ rev = 1
    /\ envKeys = TRUE
    /\ now = 0
    /\ parserStatus = {}
    /\ parserLog = <<>>
    /\ statusSeq = 0
    /\ jobs = [r \in Reqs |-> "none"]
    /\ rq = [r \in Reqs |-> NoReq]
    /\ SettingsQuiet
    /\ GuardQuiet
    /\ AuthQuiet
    /\ \E dated \in BOOLEAN, date \in ReleaseDates : mediaTbl = MediaRow(dated, date)
    /\ videoSource = <<>>
    /\ vq = [c \in VCalls |-> NoVCall]
    /\ PageQuiet

VideoSpec == VideoInit /\ [][VideoNext]_vars

AuthInit ==
    /\ store = InitialStore
    /\ token \in {NoToken, "t1"}
    /\ online \in BOOLEAN
    /\ route \in Routes
    /\ checkDue = TRUE
    /\ timer = FALSE
    /\ eff = UnmountedEff
    /\ ca = IdleCa
    /\ lg = IdleLg
    /\ ev = NoEv("init")
    /\ checked = FALSE
    /\ ops = 0
    /\ ParserQuiet

SessionSpec == AuthInit /\ [][SessionNext]_vars

LoginSpec == AuthInit /\ [][LoginNext]_vars

\* an /admin page is loaded with a token in storage
LayoutInit ==
    /\ AuthInit
    /\ token = "t1"
    /\ route = AdminRoute

LayoutSpec == LayoutInit /\ [][LayoutNext]_vars

VerifyInit == ParserQuiet /\ AuthQuiet

VerifySpec == VerifyInit /\ [][VerifyNext]_vars

ContentInit ==
    /\ rev = 1
    /\ envKeys = TRUE
    /\ now = 0
    /\ parserStatus = {}
    /\ parserLog = <<>>
    /\ statusSeq = 0
    /\ jobs = [r \in Reqs |-> "none"]
    /\ rq = [r \in Reqs |-> NoReq]
    /\ SettingsQuiet
    /\ GuardQuiet
    /\ VideoQuiet
    /\ LayoutQuiet
    /\ VerifyQuiet
    /\ store = InitialStore
    /\ token \in {NoToken, "t1"}
    /\ online = TRUE
    /\ route = AdminRoute
    /\ checkDue = TRUE
    /\ timer = FALSE
    /\ eff = UnmountedEff
    /\ ca = IdleCa
    /\ lg = IdleLg
    /\ ev = NoEv("init")
    /\ checked = FALSE
    /\ ops = 0
    /\ \E r \in {1, 2} : cq = [ContentIdle EXCEPT !.crev = r]

ContentSpec == ContentInit /\ [][ContentNext]_vars

----------------------------------------------------------------------------
(* Claims about the session controller *)

Cleared == ~store.isAuthenticated /\ store.profile = Null

CheckAuthReturnedFalse ==
    ev.op = "checkAuth" /\ ev.res = "false" /\ ev.note \in {"noToken", "only401"}

\* C1 (as stated): whenever checkAuth runs with no stored token, or with a token
\* that the profile endpoint answers with 401 and that refresh does not refresh,
\* it returns false with isAuthenticated false and the profile null.
C1_CheckAuthAlwaysClears == CheckAuthReturnedFalse => Cleared

\* C1 (amended): the same, provided the token was absent or the browser is
\* online when the failure is handled; offline the state is left as it was.
C1_CheckAuthClearsWhenOnline ==
    (CheckAuthReturnedFalse /\ (online \/ ev.note = "noToken")) => Cleared

\* a check of a stored token that saw only 401s has failed online and removed the token
C1_Witness ==
    /\ ev.op = "checkAuth" /\ ev.res = "false" /\ ev.note = "only401"
    /\ online /\ ev.del = "refreshFailed" /\ Cleared

\* C2: a login call that returns {success: true} leaves isAuthenticated true
\* and the profile equal to the server's record, and has dispatched
\* loginSuccess and setProfile exactly once each.
C2_LoginDispatchesOnce ==
    (ev.op = "login" /\ ev.res = "success") =>
        /\ store.isAuthenticated
        /\ store.profile = ev.note
        /\ ev.nLS = 1
        /\ ev.nSP = 1

\* C3: a non-OK answer of the login endpoint (400, 401, 500) makes login
\* return {success: false, error: message}, and the call (its first step and
\* the step on the answer) changes neither the stored token nor the profile.
C3_FailedLoginPersistsNothing ==
    [][(ev'.op = "login" /\ ev'.inp \in NonOkKinds \cup {"call"}) =>
          /\ token' = token
          /\ store'.profile = store.profile
          /\ ev'.inp \in NonOkKinds =>
                /\ ev'.res = "failure"
                /\ ev'.note = LoginErrorMessage(ev'.inp)
                /\ lg'.pc = "idle"]_vars

\* login has returned a failure for a 401 while a token of an earlier session is stored
C3_Witness ==
    /\ ev.op = "login" /\ ev.inp = "unauthorized" /\ ev.res = "failure"
    /\ token # NoToken

\* C4: logout() removes the token, sets isAuthenticated false, clears the
\* profile and navigates to /auth/login, whatever the state and the network,
\* and sends no request.
C4_LogoutClearsEverything ==
    ev.op = "logout" =>
        /\ token = NoToken
        /\ Cleared
        /\ route = LoginRoute
        /\ ev.req = "-"

\* logout has run offline while a check was waiting for an answer
C4_Witness ==
    /\ ev.op = "logout" /\ ~online /\ ca.pc = "profile" /\ ev.del = "logout"

IrrecoverableUnauthorized == {"refresh401", "refreshFailed", "retryFailed"}

\* C5: a stored token is removed only by logout or by an irrecoverable 401; a
\* check that fails for another reason (5xx, network, parse, timeout) keeps it.
C5_TokenRemovedOnlyOnLogoutOr401 ==
    ev.del \in {"-", "logout"} \cup IrrecoverableUnauthorized

SessionState == <<store.isAuthenticated, store.profile, token>>

\* C6: while the browser is offline, initAuth on mount, debouncedCheckAuth, the
\* interval callback and a failing checkAuth leave isAuthenticated, the
\* profile and the stored token as they were.
C6_OfflineLeavesSession ==
    [][(~online /\ ev'.op \in {"effect", "interval", "checkAuth"}) =>
          SessionState' = SessionState]_vars

Settled == eff.pc = "done" /\ ~DepsChanged(World) /\ ca.pc = "idle" /\ ~timer

\* C7: once a check started on mount has completed, the browser has been
\* redirected by its outcome: an authenticated user is not left on /auth/*,
\* and a user who is unauthenticated or no ADMIN is not left on /admin/*.
C7_RedirectFollowsCheck ==
    (checked /\ Settled) =>
        /\ ~(store.isAuthenticated /\ IsAuthPage(route))
        /\ ~(IsAdminPage(route) /\ (~store.isAuthenticated \/ store.profile # "ADMIN"))

----------------------------------------------------------------------------
(* Claims about the parser endpoint *)

Range(q) == {q[i] : i \in DOMAIN q}
StartedLogs(r) ==
    Cardinality({i \in DOMAIN parserLog :
                   parserLog[i].by = r /\ parserLog[i].message = StartedMessage})
LogsBy(r) == Cardinality({i \in DOMAIN parserLog : parserLog[i].by = r})

ReadActive(r) == rq[r].act = "start" /\ rq[r].pc \notin {"none", "find"} /\ rq[r].cur = "active"

\* C8: a start request that reads status active with lastRun less than 30
\* minutes old is answered 400, creates no log row, writes nothing to
\* ParserStatus and launches no job.
C8_FreshActiveStartRejected ==
    \A r \in Reqs :
        (ReadActive(r) /\ rq[r].age * TickMinutes < StaleMinutes) =>
            /\ rq[r].pc = "done"
            /\ rq[r].resp = 400
            /\ rq[r].writes = <<>>
            /\ LogsBy(r) = 0
            /\ jobs[r] = "none"

\* a start was rejected although an earlier start had created the row and a job
C8_Witness ==
    \E r \in Reqs :
        /\ ReadActive(r) /\ rq[r].age * TickMinutes < StaleMinutes
        /\ rq[r].resp = 400
        /\ \E q \in Reqs : q # r /\ jobs[q] = "running"

C10_ActiveImpliesLogAndJob ==
    \A r \in Reqs :
        (rq[r].pc = "done" /\ rq[r].act = "start" /\ "active" \in Range(rq[r].writes)) =>
            /\ StartedLogs(r) = 1
            /\ jobs[r] # "none"

\* C11: a stop request writes status inactive (and its 'stopped' log row) only
\* when the status it read is active; when it read inactive, error or no row it
\* answers 400 and has written neither ParserStatus nor ParserLog.
C11_StopOnlyWhenActive ==
    \A r \in Reqs : rq[r].act = "stop" /\ rq[r].pc \in {"txn", "done"} =>
        /\ (rq[r].writes # <<>> \/ LogsBy(r) > 0) => rq[r].cur = "active"
        /\ rq[r].cur # "active" =>
              /\ rq[r].pc = "done" /\ rq[r].resp = 400
              /\ rq[r].writes = <<>> /\ LogsBy(r) = 0

\* a stop that read status error (left by a failed run) was answered 400,
\* while the run that failed stays failed
C11_Witness ==
    \E r \in Reqs :
        /\ rq[r].act = "stop" /\ rq[r].cur = "error" /\ rq[r].resp = 400
        /\ \E q \in Reqs : jobs[q] = "failed"

StatusRow(tbl) == CHOOSE row \in tbl : row.id = 1

\* C12: when the run launched by a start request throws, status becomes error,
\* the message is appended to the errors already in the list, and exactly one
\* error log row is created.
C12_RunFailureRecorded ==
    [][\A r \in Reqs : (jobs[r] = "running" /\ jobs'[r] = "failed") =>
          /\ HasRow(parserStatus', 1)
          /\ StatusRow(parserStatus').status = "error"
          /\ StatusRow(parserStatus').errors = Append(StatusRow(parserStatus).errors, RunError)
          /\ parserLog' = Append(parserLog, LogRow(ErrorMessage, RunError, r))]_vars

\* C13: a GET that arrives after a PUT has saved settings, with no other PUT
\* succeeding before it is answered, and that is answered 200, returns the
\* settings that PUT saved.
C13_PutGetRoundTrip ==
    \A r \in SReqs :
        (/\ sq[r].kind = "GET" /\ sq[r].pc = "done" /\ sq[r].resp = 200
         /\ sq[r].expect # NoSettings /\ sq[r].gen = sq[r].genEnd)
        => sq[r].body = sq[r].expect

Unsigned == {"absent", "malformed", "invalid"}

\* the request's method is refused before the guard runs
RefusedFirst(f) == MethodFirst(f.ep) /\ f.method \notin Serves(f.ep)

\* C14 (as stated): a request to an admin endpoint reads or changes nothing
\* unless its token verifies to a user whose row has role ADMIN; without a header
\* or with an invalid token it is answered 401, with a non-admin or missing user 403.
C14_AdminGuard ==
    \A r \in GReqs : gq[r].pc = "done" =>
        /\ gq[r].acts # <<>> => (gq[r].hdr \in SignedTokens /\ gq[r].seen = "ADMIN")
        /\ gq[r].hdr \in {"absent", "malformed", "invalid"} =>
              (gq[r].resp = 401 /\ gq[r].acts = <<>>)
        /\ (gq[r].hdr \in SignedTokens /\ gq[r].seen \in {"USER", "none"}) =>
              (gq[r].resp = 403 /\ gq[r].acts = <<>>)

\* C14 (amended): the same, except that users/role and stats answer 405 to a
\* method they do not serve before they look at the header; such a request
\* reads and changes nothing either.
C14_AdminGuardAfterMethod ==
    \A r \in GReqs : gq[r].pc = "done" =>
        /\ gq[r].acts # <<>> => (gq[r].hdr \in SignedTokens /\ gq[r].seen = "ADMIN")
        /\ RefusedFirst(gq[r]) => (gq[r].resp = 405 /\ gq[r].acts = <<>>)
        /\ (~RefusedFirst(gq[r]) /\ gq[r].hdr \in Unsigned) =>
              (gq[r].resp = 401 /\ gq[r].acts = <<>>)
        /\ (~RefusedFirst(gq[r]) /\ gq[r].hdr \in SignedTokens) =>
              /\ gq[r].seen \in {"USER", "ADMIN", "none"}
              /\ gq[r].seen # "ADMIN" => (gq[r].resp = 403 /\ gq[r].acts = <<>>)

\* a user who is no admin asked to delete content and was answered 403 with the
\* row still there
C14_Witness ==
    /\ 1 \in media
    /\ \E r \in GReqs :
          /\ gq[r].ep = "content" /\ gq[r].method = "DELETE" /\ gq[r].hdr = "tok2"
          /\ gq[r].seen = "USER" /\ gq[r].resp = 403 /\ gq[r].acts = <<>>

\* the calls of the provider path: getVideoSources, the provider fetchers and
\* saveVideoSources
ProviderPath ==
    {"getVideoSources", "getVKVideoSources", "getRuTubeVideoSources",
     "getYouTubeVideoSources", "saveVideoSources"}

Times(q, x) == Cardinality({i \in DOMAIN q : q[i] = x})

\* the row a call read had no release date, or one later than the clock at the test
Unreleased(f) == f.found /\ (~f.dated \/ f.date > f.at)

\* C15: a call of processMediaVideo whose media row has no release_date, or one
\* in the future when it is tested, takes the trailer path only: it calls
\* processTrailer, and never getVideoSources, a provider fetcher or
\* saveVideoSources, and the rows it is about to write are trailer rows.
C15_UnreleasedTrailerOnly ==
    \A c \in VCalls : Unreleased(vq[c]) =>
        /\ Range(vq[c].calls) \cap ProviderPath = {}
        /\ Times(vq[c].calls, "processTrailer") = 1
        /\ \A i \in DOMAIN vq[c].rows : vq[c].rows[i].type = "trailer"

\* C15 witness: a call for an item released in the future has returned after
\* creating its trailer row
C15_Witness ==
    \E c \in VCalls :
        /\ vq[c].dated /\ vq[c].date > vq[c].at /\ vq[c].found
        /\ vq[c].pc = "done" /\ vq[c].out = "returned" /\ vq[c].trailer = "url"
        /\ \E i \in DOMAIN videoSource : videoSource[i].type = "trailer"

\* the providers have been asked for a released item and resolved no source
ZeroSources(f) ==
    /\ f.found /\ f.dated /\ f.date <= f.at
    /\ "getYouTubeVideoSources" \in Range(f.calls)
    /\ f.srcs = <<>>

\* C16: a call for an item whose release_date is not in the future, once the
\* providers have resolved zero sources, has called processTrailer exactly once,
\* has not called saveVideoSources, and no row other than a trailer row is saved.
C16_ZeroSourcesOneTrailer ==
    \A c \in VCalls : ZeroSources(vq[c]) =>
        /\ Times(vq[c].calls, "processTrailer") = 1
        /\ Times(vq[c].calls, "getTrailerUrl") = 1
        /\ "saveVideoSources" \notin Range(vq[c].calls)
        /\ \A i \in DOMAIN vq[c].rows : vq[c].rows[i].type = "trailer"
        /\ \A i \in DOMAIN videoSource : videoSource[i].type = "trailer"

\* C16 witness: a call for a released item, zero sources, has returned with
\* its trailer row created
C16_Witness ==
    \E c \in VCalls :
        /\ ZeroSources(vq[c])
        /\ vq[c].pc = "done" /\ vq[c].out = "returned" /\ vq[c].trailer = "url"
        /\ videoSource # <<>>

\* C17: a call of processMediaVideo in which a step threw (media not found, a
\* database call failing) ends with the media's status ERROR and the caller
\* receiving the exception that was thrown; a call in which only the trailer
\* request failed returns normally and leaves the status alone.
C17_FailureSetsErrorAndRethrows ==
    \A c \in VCalls : vq[c].pc = "done" =>
        /\ vq[c].err # "none" =>
              /\ vq[c].set
              /\ mediaTbl[vq[c].id].exists /\ mediaTbl[vq[c].id].status = "ERROR"
              /\ vq[c].out = vq[c].err
        /\ (vq[c].err = "none" /\ vq[c].trailer = "error") =>
              (vq[c].out = "returned" /\ ~vq[c].set)

\* a step of the checkAuth call in flight
CheckStep == ca.pc # "idle" /\ ev'.op = "checkAuth" /\ ca' # ca

\* the step in which a check of a stored token returned false to its caller
\* with its last attempt used up
CheckFailed ==
    CheckStep /\ ca'.pc = "idle" /\ ~(ev'.res = "true") /\ ca.retryCount <= 1

\* the refresh request goes out only in the step that handled a 401 from the
\* first profile request of the attempt
RefreshOnlyAfter401 ==
    (CheckStep /\ ca'.pc = "refresh") =>
        (ca.pc = "profile" /\ ev'.inp = "unauthorized" /\ ev'.req = "refresh")

\* a successful refresh stores the new token and sends one profile request that
\* carries it; what answers that request sends no second one
RefreshedThenOneRetry ==
    /\ (CheckStep /\ ca'.pc = "retry") =>
          /\ ca.pc = "refresh" /\ ev'.inp = "ok"
          /\ token' # NoToken /\ ca'.reqToken = token'
          /\ ev'.req = "profile" /\ ca'.nRetry = ca.nRetry + 1
    /\ (CheckStep /\ ca.pc = "refresh" /\ ev'.inp = "ok") => ca'.pc = "retry"
    /\ (CheckStep /\ ca.pc = "retry") => ca'.pc \in {"idle", "backoff"}

ForcedOut == token' = NoToken /\ ~store'.isAuthenticated /\ store'.profile = Null

\* C18 (as stated): within a check the refresh endpoint is called only after the
\* profile endpoint answered 401; a successful refresh stores the new token
\* before exactly one retry carrying it; and when the check fails the token is
\* removed and the state is logged out.
C18_RefreshRetryFail ==
    [][/\ RefreshOnlyAfter401
       /\ RefreshedThenOneRetry
       /\ CheckFailed => ForcedOut]_vars

\* C18 (amended): the same, the last part only when the browser is online when
\* the failure is handled; offline the token and the state are left as they were.
C18_RefreshRetryFailOnline ==
    [][/\ RefreshOnlyAfter401
       /\ RefreshedThenOneRetry
       /\ (CheckFailed /\ online) => ForcedOut
       /\ (CheckFailed /\ ~online /\ ca.caller # "login") =>
             (token' = token /\ store'.isAuthenticated = store.isAuthenticated
                             /\ store'.profile = store.profile)]_vars

\* C18 witness: a check whose refresh succeeded with a new token and whose retry
\* was refused on the last attempt has removed the token and logged out
C18_Witness ==
    /\ ev.op = "checkAuth" /\ ev.res = "false" /\ ev.del = "retryFailed"
    /\ online /\ token = NoToken /\ Cleared

\* how far a check in flight is from its end: attempts left, then the position
\* inside the attempt
Measure(f) ==
    4 * f.retryCount + (CASE f.pc = "backoff" -> 4 [] f.pc = "profile" -> 3
                          [] f.pc = "refresh" -> 2 [] f.pc = "retry" -> 1 [] OTHER -> 0)

\* C19: a check sends at most 3 first profile requests, at most 3 refresh
\* requests and at most 3 profile requests after a refresh, its retry counter
\* stays within 0..3, and every step of a check either returns to the caller
\* or brings the check nearer its end (so it ends after finitely many answers).
C19_AtMostThreeAttempts ==
    [][/\ ca'.nProfile <= RetryCount /\ ca'.nRefresh <= RetryCount /\ ca'.nRetry <= RetryCount
       /\ ca'.retryCount \in 0..RetryCount
       /\ ca'.pc \in {"profile", "refresh", "retry"} => ca'.retryCount >= 1
       /\ CheckStep => (ca'.pc = "idle" \/ Measure(ca') < Measure(ca))]_vars

\* C19 witness: a check has sent its third refresh request
C19_Witness ==
    ca.pc = "refresh" /\ ca.nProfile = RetryCount /\ ca.nRefresh = RetryCount /\ ca.nRetry = 2

\* C20: a profile request of checkAuth that is aborted by the timeout leaves the
\* stored token and the session as they were, and the check goes on to its
\* next attempt while attempts remain.
C20_AbortIsRetryable ==
    [][(CheckStep /\ ca.pc \in {"profile", "retry"} /\ ev'.inp = "abort") =>
          /\ token' = token
          /\ store'.isAuthenticated = store.isAuthenticated
          /\ store'.profile = store.profile
          /\ ca.retryCount > 1 => ca'.pc = "backoff"]_vars

\* the TTL of the deployed revision
Ttl == IF rev = 1 THEN CacheLifetime ELSE CacheTtl

\* request r has just done its cache lookup
Looked(r) == sq[r].pc = "cache" /\ sq'[r].pc # "cache"

EntryAge(r) == AgeMs(cache[sq[r].uid].at, DateNow)

\* a lookup answers from the cache only with an entry its own user stored less
\* than the TTL ago
ServedOnlyFresh(r) ==
    (Looked(r) /\ sq'[r].pc = "done") =>
        /\ cache[sq[r].uid].has /\ cache[sq[r].uid].by = sq[r].uid
        /\ EntryAge(r) < Ttl
        /\ sq'[r].resp = 200 /\ sq'[r].body = cache[sq[r].uid].settings

\* C21 (as stated): a GET is answered from the cache only with an entry stored
\* under the caller's id less than the TTL ago (5 s in revision 1, 60 s in
\* revision 2); an entry that has reached the TTL is deleted by the lookup and
\* the request goes on to read the database.
C21_CacheTtl ==
    [][\A r \in SReqs :
          /\ ServedOnlyFresh(r)
          /\ (Looked(r) /\ cache[sq[r].uid].has /\ EntryAge(r) >= Ttl) =>
                (sq'[r].pc = "read" /\ ~cache'[sq[r].uid].has)]_vars

\* C21 (amended): the same, except that the lookup deletes the entry only when
\* its age has reached CACHE_TTL (60 s); a younger entry that is too old to be
\* served stays in the Map until the result of the read replaces it.
C21_CacheTtlKeepsEntry ==
    [][\A r \in SReqs :
          /\ ServedOnlyFresh(r)
          /\ (Looked(r) /\ cache[sq[r].uid].has /\ EntryAge(r) >= Ttl) =>
                /\ sq'[r].pc = "read"
                /\ cache'[sq[r].uid].has <=> EntryAge(r) < CacheTtl
          /\ (Looked(r) /\ cache[sq[r].uid].has /\ EntryAge(r) < Ttl) => sq'[r].pc = "done"
          /\ \A q \in SReqs :
                (sq[q].pc = "read" /\ sq'[q].pc # "read") =>
                    (cache'[sq[q].uid].at = DateNow /\ cache'[sq[q].uid].by = sq[q].uid)]_vars

\* C21 witness: one GET has been answered from the cache, and another has found
\* an entry of exactly the TTL's age and gone on to read the database
C21_Witness ==
    /\ \E q \in SReqs : sq[q].src = "cache" /\ sq[q].resp = 200
    /\ \E r \in SReqs : /\ sq[r].pc = "read" /\ cache[sq[r].uid].has
                        /\ AgeMs(cache[sq[r].uid].at, DateNow) = CacheLifetime

\* C22: whatever start and stop requests have run, and however they have
\* interleaved, table ParserStatus holds at most one row.
C22_OneStatusRow == Cardinality(parserStatus) <= 1

\* the run launched by request r fails in this step
RunFails(r) == jobs[r] = "running" /\ jobs'[r] = "failed"

\* a start request that recovered a stale lock has launched a run that is
\* still going
NewerRun(r) ==
    \E q \in Reqs : /\ q # r /\ jobs[q] = "running"
                    /\ rq[q].writes # <<>> /\ rq[q].writes[1] = "inactive"

\* C28: the failure of a run changes table ParserStatus only if the status is
\* still active and no newer run has been started by a stale-lock recovery;
\* after a stop has written inactive, or when a newer run exists, the failing
\* run leaves the status and the errors list alone.
C28_OnlyCurrentRunSetsError ==
    [][\A r \in Reqs :
          (RunFails(r) /\ (FindFirst(parserStatus).status # "active" \/ NewerRun(r)))
              => parserStatus' = parserStatus]_vars

\* no checkAuth, login or debounce timer is pending
NothingInFlight == ca.pc = "idle" /\ lg.pc = "idle" /\ ~timer

\* C23  Whenever no auth operation is in flight, isAuthenticated = TRUE implies
\* that storage holds a token (so a checkAuth whose refresh was answered 401
\* never afterwards dispatches loginSuccess for the token it captured).
C23_AuthenticatedHasToken ==
    (NothingInFlight /\ store.isAuthenticated) => token # NoToken

\* C24  Once logout() has run, isAuthenticated stays FALSE, the profile stays
\* null and storage holds no token until the next login call: the step that
\* follows a logout, unless it belongs to a login call, leaves all three so,
\* also when it is the answer to a request sent before the logout.
C24_LogoutStays ==
    [][(ev.op = "logout" /\ lg.pc = "idle" /\ ev'.op # "login")
          => (Cleared' /\ token' = NoToken)]_vars

\* C27  With the database reachable, every GET by an admin is answered 200 with
\* settings that are not null (the status travels in the same object), also
\* the first GET on an empty database, a GET served from the cache and a GET
\* that finds only one of the two singleton rows.
C27_GetAlwaysAnswers ==
    \A r \in SReqs :
        (sq[r].kind = "GET" /\ sq[r].pc = "done")
            => (sq[r].resp = 200 /\ sq[r].body # NoSettings)

\* C25  A check that shouldCheckAuth has recorded is executed and the promise
\* of debouncedCheckAuth resolves, also across a cleanup and re-run of the
\* effect: while the token stays and the browser stays online, a pending
\* debounce timer goes away only by firing (which runs checkAuth and resolves
\* the promise) or is armed again in the same step.
C25_RecordedCheckRuns ==
    [][(timer /\ token' # NoToken /\ online')
          => (timer' \/ ev'.op = "checkAuth")]_vars

\* C26  AdminLayout redirects to /auth/login only after an auth check has
\* completed: never while the debounce timer of the initial check is still
\* pending or a checkAuth call is in flight.
C26_RedirectAfterCheck ==
    [][(ev'.op = "layout" /\ ev'.res = "redirect")
          => (~timer /\ ca.pc = "idle")]_vars

\* C29  A verification code yields a successful verification at most once:
\* of the requests that present the stored code, at most one is answered 200
\* with a token.
C29_VerifiesOnce ==
    Cardinality({r \in KReqs : kq[r].resp = 200 /\ kq[r].token}) <= 1

\* C30  After fetch failures (a token is in storage, so every invocation that
\* gets past the retry test sends a request) the retry timer invokes
\* fetchMediaItems at most MAX_RETRIES times in a row.
C30_AtMostMaxRetries ==
    token # NoToken => \A c \in CCalls : cq.calls[c].timerRuns <= MaxRetries

============================================================================
